---- MODULE Spec2Model ----
(***************************************************************************)
(* Model of utils/walking_isochrones.py, get_walking_isochrones.           *)
(*                                                                         *)
(* Units.  Edge lengths are whole metres.  WALKING_SPEED_MS = 1.25 is the  *)
(* fraction SPEED_NUM / SPEED_DEN = 5 / 4, and lengths are drawn from      *)
(* multiples of SPEED_NUM, so length / 1.25 is a whole number of seconds   *)
(* and the integer arithmetic below is exact.  Interval values (minutes in *)
(* the program, any number) are kept in half minutes, so that 1.5 min     *)
(* = 90 s is a value of the model.                                         *)
(*                                                                         *)
(* The reachable subgraph is the one ego_graph(G, n, radius, distance)     *)
(* builds: a single-source Dijkstra search with a cutoff, a heap frontier  *)
(* with lazy deletion, and the cheapest of parallel edges as the weight.   *)
(* Heap entries are (distance, push count, node); adjacencies are walked   *)
(* in node order.  A cheaper way to a node already finalized raises        *)
(* ValueError, which get_walking_isochrones prints and re-raises.          *)
(***************************************************************************)
EXTENDS Integers, FiniteSets, Sequences, TLC

\* ---------------------------------------------------------------- bounds
MaxNode == 3
MaxEdges == 3
MaxIntervals == 2

\* ------------------------------------------------------------- constants
SPEED_NUM == 5
SPEED_DEN == 4
SEC_PER_MIN == 60
MIN_POINTS == 3

\* length attributes an edge of the loaded network can carry (metres); an
\* edge without the attribute reads as length 0
LengthValues == {-150, 75, 150}
\* lengths of a well-formed network
RoadLengths == {75, 150}
\* requested intervals, in half minutes: 1.5 min and 2 min
IntervalValues == {3, 4}

VARIABLES
    G_nodes,          \* nodes of G
    G_edges,          \* edges of G, <<u, v, key>>
    length,           \* edge -> data['length']; an edge outside DOMAIN has none
    has_xy,           \* nodes whose data carries both 'x' and 'y'
    intervals,        \* the requested intervals
    travel_time_sec,  \* edge -> data['travel_time_sec'], once annotated
    center_node,      \* origin node, 0 until resolved
    idx,              \* position of the interval loop in intervals
    interval_sec,     \* radius of the current interval
    fringe,           \* heap of the search: set of <<d, push count, v>>
    count,            \* the push counter of the search
    seen,             \* node -> best pushed distance
    dist,             \* node -> final distance
    subgraph,         \* nodes of the current ego graph
    subgraphs,        \* per processed interval: <<interval_min, nodes>>
    isochrone_features,
    log,              \* what the loop printed for each finished interval
    pc,
    error

vars == <<G_nodes, G_edges, length, has_xy, intervals, travel_time_sec,
          center_node, idx, interval_sec, fringe, count, seen, dist, subgraph,
          subgraphs, isochrone_features, log, pc, error>>

graphVars == <<G_nodes, G_edges, length, has_xy, intervals>>
searchVars == <<interval_sec, fringe, count, seen, dist>>

EmptyFn == [x \in {} |-> 0]

\* ------------------------------------------------------------ the input
\* multigraph edges <<u, v, key>> over the nodes N
EdgeSlots(N) == {<<u, v, k>> : u \in N, v \in N, k \in 0..1}

\* no self-loops; key 1 exists only beside key 0
WellKeyed(E) == \A e \in E : e[1] # e[2] /\ (e[3] = 1 => <<e[1], e[2], 0>> \in E)

\* every network of at most MaxEdges edges over the nodes N
Graphs(N) ==
    {E \in SUBSET EdgeSlots(N) : Cardinality(E) <= MaxEdges /\ WellKeyed(E)}

\* a junction (node 1) with a street to each other node
Hub(N) == {<<1, v, 0>> : v \in N \ {1}}

\* the edge a further street between u and v gets
Further(u, v) == IF u = 1 THEN <<u, v, 1>> ELSE <<u, v, 0>>

IntervalLists == UNION {[1..n -> IntervalValues] : n \in 1..MaxIntervals}

InitRest ==
    /\ intervals \in IntervalLists
    /\ travel_time_sec = EmptyFn
    /\ center_node = 0
    /\ idx = 0
    /\ interval_sec = 0
    /\ fringe = {}
    /\ count = 0
    /\ seen = EmptyFn
    /\ dist = EmptyFn
    /\ subgraph = {}
    /\ subgraphs = <<>>
    /\ isochrone_features = <<>>
    /\ log = <<>>
    /\ pc = "annotate"
    /\ error = "none"

\* networks of up to MaxNode nodes: any edges, any length attributes, and at
\* most the last node without coordinates
InitSmall ==
    /\ \E n \in 1..MaxNode :
        /\ G_nodes = 1..n
        /\ has_xy \in {1..n, 1..(n - 1)}
    /\ G_edges \in Graphs(G_nodes)
    /\ \E D \in SUBSET G_edges : length \in [D -> LengthValues]
    /\ InitRest

\* networks of MaxNode + 1 nodes: a junction with well-formed streets to
\* every other node, and at most one further street of any length
InitHub ==
    /\ G_nodes = 1..(MaxNode + 1)
    /\ has_xy = G_nodes
    /\ \E F \in {{}} \cup {{Further(q[1], q[2])} :
                              q \in {r \in G_nodes \X G_nodes : r[1] # r[2]}} :
        /\ G_edges = Hub(G_nodes) \cup F
        /\ \E h \in [Hub(G_nodes) -> RoadLengths], f \in [F -> LengthValues] :
             length = [e \in G_edges |-> IF e \in F THEN f[e] ELSE h[e]]
    /\ InitRest

Init == InitSmall \/ InitHub

\* ------------------------------------------------- step 2: travel times
\* data.get('length', 0)
GetLength(e) == IF e \in DOMAIN length THEN length[e] ELSE 0

\* length / WALKING_SPEED_MS, exact on multiples of SPEED_NUM
TravelTimeSec(e) == (GetLength(e) * SPEED_DEN) \div SPEED_NUM

\* position of an edge in the iteration order of G.edges(keys=True)
EdgeRank(e) == (e[1] * (MaxNode + 1) + e[2]) * 2 + e[3]

Unannotated == G_edges \ DOMAIN travel_time_sec

\* one pass of the loop over G.edges: the next edge gets its travel time
\* (travel_time_min, stored beside it, is travel_time_sec / 60 and is never
\* read again)
AnnotateEdge ==
    /\ pc = "annotate"
    /\ Unannotated # {}
    /\ LET e == CHOOSE x \in Unannotated :
                    \A y \in Unannotated : EdgeRank(x) <= EdgeRank(y)
       IN travel_time_sec' =
              [x \in DOMAIN travel_time_sec \cup {e} |->
                  IF x = e THEN TravelTimeSec(e) ELSE travel_time_sec[x]]
    /\ UNCHANGED <<graphVars, center_node, idx, searchVars, subgraph,
                   subgraphs, isochrone_features, log, pc, error>>

\* variant: the origin is resolved and the loop entered while edges are
\* still without a travel time
NearestNodes_early ==
    /\ pc = "annotate"
    /\ center_node' \in G_nodes
    /\ pc' = "loop"
    /\ UNCHANGED <<graphVars, travel_time_sec, idx, searchVars, subgraph,
                   subgraphs, isochrone_features, log, error>>

\* ------------------------------------------------- step 3: origin node
\* ox.distance.nearest_nodes(G, lon, lat): some node of G
NearestNodes ==
    /\ pc = "annotate"
    /\ Unannotated = {}
    /\ center_node' \in G_nodes
    /\ pc' = "loop"
    /\ UNCHANGED <<graphVars, travel_time_sec, idx, searchVars, subgraph,
                   subgraphs, isochrone_features, log, error>>

\* ------------------------------------------------ step 4: the intervals
\* interval_min * 60, interval_min held in half minutes
IntervalSec(interval_min) == (interval_min * SEC_PER_MIN) \div 2

\* variant: the search keeps the seen map of the previous interval
StartInterval_keepseen ==
    /\ pc = "loop"
    /\ idx < Len(intervals)
    /\ idx' = idx + 1
    /\ interval_sec' = IntervalSec(intervals[idx + 1])
    /\ seen' = [n \in DOMAIN seen \cup {center_node} |->
                   IF n = center_node THEN 0 ELSE seen[n]]
    /\ fringe' = {<<0, 0, center_node>>}
    /\ count' = 1
    /\ dist' = EmptyFn
    /\ subgraph' = {}
    /\ pc' = "ego"
    /\ UNCHANGED <<graphVars, travel_time_sec, center_node, subgraphs,
                   isochrone_features, log, error>>

\* loop head, and the entry of ego_graph: the search starts at the origin
StartInterval ==
    /\ pc = "loop"
    /\ idx < Len(intervals)
    /\ idx' = idx + 1
    /\ interval_sec' = IntervalSec(intervals[idx + 1])
    /\ seen' = [n \in {center_node} |-> 0]
    /\ fringe' = {<<0, 0, center_node>>}
    /\ count' = 1
    /\ dist' = EmptyFn
    /\ subgraph' = {}
    /\ pc' = "ego"
    /\ UNCHANGED <<graphVars, travel_time_sec, center_node, subgraphs,
                   isochrone_features, log, error>>

\* successors of v in G
Succ(v) == {e[2] : e \in {x \in G_edges : x[1] = v}}

\* attr.get('travel_time_sec', 1)
EdgeCost(e) == IF e \in DOMAIN travel_time_sec THEN travel_time_sec[e] ELSE 1

SetMin(S) == CHOOSE m \in S : \A x \in S : m <= x

\* weight of v -> u: the cheapest of the parallel edges
Weight(v, u) ==
    SetMin({EdgeCost(e) : e \in {x \in G_edges : x[1] = v /\ x[2] = u}})

\* heappop: the entry least by (distance, push count)
HeapMin ==
    CHOOSE p \in fringe :
        \A q \in fringe : p[1] < q[1] \/ (p[1] = q[1] /\ p[2] <= q[2])

\* variant: a candidate time equal to the cutoff is dropped as well
WithinCutoff_strict(v, d) == {u \in Succ(v) : d + Weight(v, u) < interval_sec}

\* successors of v, finalized at d, whose candidate time is within the cutoff
WithinCutoff(v, d) == {u \in Succ(v) : ~(d + Weight(v, u) > interval_sec)}

\* a successor already finalized at a larger time than the candidate
Contradictory(v, d, final) ==
    {u \in WithinCutoff(v, d) : u \in final /\ d + Weight(v, u) < dist[u]}

\* successors to push: not finalized, and unseen or improved
ToPush(v, d, final) ==
    {u \in WithinCutoff(v, d) :
        /\ u \notin final
        /\ (u \notin DOMAIN seen \/ d + Weight(v, u) < seen[u])}

\* the adjacency of v is walked in node order: place of u among the pushes
PushRank(u, push) == Cardinality({w \in push : w < u})

\* variant: the stale entry is read but left on the heap
DijkstraStale_peek ==
    /\ pc = "ego"
    /\ fringe # {}
    /\ HeapMin[3] \in DOMAIN dist
    /\ UNCHANGED vars

\* pop of an entry whose node is already finalized: skipped
DijkstraStale ==
    /\ pc = "ego"
    /\ fringe # {}
    /\ HeapMin[3] \in DOMAIN dist
    /\ fringe' = fringe \ {HeapMin}
    /\ UNCHANGED <<graphVars, travel_time_sec, center_node, idx, interval_sec,
                   count, seen, dist, subgraph, subgraphs, isochrone_features,
                   log, pc, error>>

\* pop of a new node: it is finalized and its out-edges are relaxed
DijkstraExpand ==
    /\ pc = "ego"
    /\ fringe # {}
    /\ LET d == HeapMin[1]
           v == HeapMin[3]
           final == DOMAIN dist \cup {v}
           push == ToPush(v, d, final)
       IN /\ v \notin DOMAIN dist
          /\ Contradictory(v, d, final) = {}
          /\ dist' = [n \in final |-> IF n = v THEN d ELSE dist[n]]
          /\ seen' = [n \in DOMAIN seen \cup push |->
                         IF n \in push THEN d + Weight(v, n) ELSE seen[n]]
          /\ fringe' = (fringe \ {HeapMin}) \cup
                 {<<d + Weight(v, u), count + PushRank(u, push), u>> : u \in push}
          /\ count' = count + Cardinality(push)
    /\ UNCHANGED <<graphVars, travel_time_sec, center_node, idx, interval_sec,
                   subgraph, subgraphs, isochrone_features, log, pc, error>>

\* a shorter way to a finalized node: ValueError, re-raised by the function
DijkstraRaise ==
    /\ pc = "ego"
    /\ fringe # {}
    /\ HeapMin[3] \notin DOMAIN dist
    /\ Contradictory(HeapMin[3], HeapMin[1], DOMAIN dist \cup {HeapMin[3]}) # {}
    /\ pc' = "raised"
    /\ error' = "ContradictoryPaths"
    /\ UNCHANGED <<graphVars, travel_time_sec, center_node, idx, searchVars,
                   subgraph, subgraphs, isochrone_features, log>>

\* the heap is empty: ego_graph returns the subgraph induced by the
\* finalized nodes
EgoGraphReturn ==
    /\ pc = "ego"
    /\ fringe = {}
    /\ subgraph' = DOMAIN dist
    /\ subgraphs' = Append(subgraphs, <<intervals[idx], DOMAIN dist>>)
    /\ pc' = "coords"
    /\ UNCHANGED <<graphVars, travel_time_sec, center_node, idx, searchVars,
                   isochrone_features, log, error>>

\* ------------------------------------------ steps 5 and 6: the polygon
\* nodes of the subgraph whose x and y are both present
NodeCoords == subgraph \cap has_xy

SubgraphEdges == {e \in G_edges : e[1] \in subgraph /\ e[2] \in subgraph}

\* variant: the feature records the radius in seconds
Feature_seconds == [minutes |-> interval_sec,
                    num_nodes |-> Cardinality(subgraph),
                    num_edges |-> Cardinality(SubgraphEdges)]

Feature == [minutes |-> intervals[idx],
            num_nodes |-> Cardinality(subgraph),
            num_edges |-> Cardinality(SubgraphEdges)]

\* fewer than 3 points: warning, continue
NotEnoughPoints ==
    /\ pc = "coords"
    /\ Cardinality(NodeCoords) < MIN_POINTS
    /\ log' = Append(log, "not_enough_points")
    /\ pc' = "loop"
    /\ UNCHANGED <<graphVars, travel_time_sec, center_node, idx, searchVars,
                   subgraph, subgraphs, isochrone_features, error>>

\* hull and area computed: the feature is appended
PolygonCreated ==
    /\ pc = "coords"
    /\ Cardinality(NodeCoords) >= MIN_POINTS
    /\ isochrone_features' = Append(isochrone_features, Feature)
    /\ log' = Append(log, "created")
    /\ pc' = "loop"
    /\ UNCHANGED <<graphVars, travel_time_sec, center_node, idx, searchVars,
                   subgraph, subgraphs, error>>

\* hull, projection or area raised: error printed, continue
PolygonFailed ==
    /\ pc = "coords"
    /\ Cardinality(NodeCoords) >= MIN_POINTS
    /\ log' = Append(log, "polygon_error")
    /\ pc' = "loop"
    /\ UNCHANGED <<graphVars, travel_time_sec, center_node, idx, searchVars,
                   subgraph, subgraphs, isochrone_features, error>>

\* ------------------------------------------------- step 7: the result
RaiseNoValid ==
    /\ pc = "loop"
    /\ idx = Len(intervals)
    /\ isochrone_features = <<>>
    /\ pc' = "raised"
    /\ error' = "NoValidIsochrones"
    /\ UNCHANGED <<graphVars, travel_time_sec, center_node, idx, searchVars,
                   subgraph, subgraphs, isochrone_features, log>>

ReturnGdf ==
    /\ pc = "loop"
    /\ idx = Len(intervals)
    /\ isochrone_features # <<>>
    /\ pc' = "returned"
    /\ UNCHANGED <<graphVars, travel_time_sec, center_node, idx, searchVars,
                   subgraph, subgraphs, isochrone_features, log, error>>

Next ==
    \/ AnnotateEdge
    \/ NearestNodes
    \/ StartInterval
    \/ DijkstraStale
    \/ DijkstraExpand
    \/ DijkstraRaise
    \/ EgoGraphReturn
    \/ NotEnoughPoints
    \/ PolygonCreated
    \/ PolygonFailed
    \/ RaiseNoValid
    \/ ReturnGdf

Spec == Init /\ [][Next]_vars

\* requests of a single interval: every search starts from the same reset
\* state, so these cover every search the loop can run
InitOne == Init /\ Len(intervals) = 1

\* the function runs to its end: no step of it waits on anything
FairSpec == InitOne /\ [][Next]_vars /\ WF_vars(Next)

TypeOK ==
    /\ G_edges \subseteq EdgeSlots(G_nodes)
    /\ DOMAIN travel_time_sec \subseteq G_edges
    /\ pc \in {"annotate", "loop", "ego", "coords", "raised", "returned"}

\* ------------------------------------------------------------- helpers
\* every annotated cost is non-negative
NonNegative == \A e \in G_edges : EdgeCost(e) >= 0

\* costs of the directed walks of at most k edges from the origin, per node
RECURSIVE PathCosts(_)
PathCosts(k) ==
    IF k = 0
    THEN [v \in G_nodes |-> IF v = center_node THEN {0} ELSE {}]
    ELSE LET prev == PathCosts(k - 1)
         IN [v \in G_nodes |->
                prev[v] \cup UNION {{t + EdgeCost(e) : t \in prev[e[1]]} :
                                      e \in {x \in G_edges : x[2] = v}}]

\* with non-negative costs a shortest walk has fewer edges than G has nodes
WalkCosts == PathCosts(Cardinality(G_nodes) - 1)

\* minutes of the intervals whose log entry is "created", in request order
RECURSIVE CreatedMinutes(_)
CreatedMinutes(k) ==
    IF k = 0 THEN <<>>
    ELSE IF log[k] = "created"
         THEN Append(CreatedMinutes(k - 1), intervals[k])
         ELSE CreatedMinutes(k - 1)

FeatureMinutes == [k \in DOMAIN isochrone_features |-> isochrone_features[k].minutes]

\* ------------------------------------------------------------- claims

\* C1: on a graph with non-negative travel times, the subgraph the search
\* returns is exactly the set of nodes whose shortest travel time from the
\* origin is at most the radius, and each final distance is that shortest time.
C1_ReachExact ==
    (pc = "coords" /\ NonNegative) =>
        /\ subgraph = {v \in G_nodes : \E t \in WalkCosts[v] : t <= interval_sec}
        /\ \A v \in subgraph : dist[v] = SetMin(WalkCosts[v])

\* the scenario: 75 m and 150 m out of the origin, radius 90 s
C1_Witness ==
    /\ pc = "coords"
    /\ interval_sec = 90
    /\ \E a \in G_nodes, b \in G_nodes :
        /\ G_edges = {<<center_node, a, 0>>, <<center_node, b, 0>>}
        /\ a # b
        /\ DOMAIN length = G_edges
        /\ length[<<center_node, a, 0>>] = 75
        /\ length[<<center_node, b, 0>>] = 150
        /\ travel_time_sec[<<center_node, a, 0>>] = 60
        /\ travel_time_sec[<<center_node, b, 0>>] = 120
        /\ subgraph = {center_node, a}

\* C2: of two processed intervals of the same request, the one with the
\* smaller time budget has its reachable nodes among those of the larger.
C2_Monotone ==
    \A i \in DOMAIN subgraphs, j \in DOMAIN subgraphs :
        subgraphs[i][1] < subgraphs[j][1] => subgraphs[i][2] \subseteq subgraphs[j][2]

C2_Witness ==
    /\ Len(subgraphs) = 2
    /\ subgraphs[1][1] < subgraphs[2][1]
    /\ subgraphs[1][2] # subgraphs[2][2]
    /\ Cardinality(subgraphs[1][2]) > 1

\* C3: every final distance is between 0 and the radius, and no frontier
\* entry exceeds the radius.
C3_TimesWithinRadius ==
    pc \in {"ego", "coords"} =>
        /\ \A v \in DOMAIN dist : 0 <= dist[v] /\ dist[v] <= interval_sec
        /\ \A p \in fringe : p[1] <= interval_sec

\* C4: a skipped interval does not abort the run; the run fails with
\* NoValidIsochrones exactly when every interval was skipped; once an interval
\* has produced a polygon the run does not fail.
C4_SkipOrFail ==
    /\ error = "NoValidIsochrones" <=>
          (pc = "raised" /\ Len(log) = Len(intervals)
             /\ \A k \in DOMAIN log : log[k] # "created")
    /\ (pc = "raised" => isochrone_features = <<>>)
    /\ (pc = "loop" /\ idx < Len(intervals) => ENABLED StartInterval)

\* C5: a returned feature sequence is non-empty, carries no error, and its
\* minutes are those of the intervals that were not skipped, in request order.
C5_FeaturesInOrder ==
    pc = "returned" =>
        /\ error = "none"
        /\ isochrone_features # <<>>
        /\ Len(log) = Len(intervals)
        /\ FeatureMinutes = CreatedMinutes(Len(intervals))

\* a partial success, and a request with a repeated interval
C5_Witness ==
    /\ pc = "returned"
    /\ Len(isochrone_features) < Len(intervals)

C5_WitnessDup ==
    /\ pc = "returned"
    /\ Len(isochrone_features) = 2
    /\ isochrone_features[1].minutes = isochrone_features[2].minutes

\* C6: an annotated edge whose length is missing or not positive costs 0,
\* any other edge costs length / speed.
C6_AnnotatedCost ==
    \A e \in DOMAIN travel_time_sec :
        IF e \notin DOMAIN length \/ length[e] <= 0
        THEN travel_time_sec[e] = 0
        ELSE travel_time_sec[e] * SPEED_NUM = length[e] * SPEED_DEN

\* C8: the search never returns a subgraph after meeting an edge of negative
\* cost (the edges out of a finalized node are the ones it has met).
C8_InvalidWeight ==
    pc \in {"coords", "returned"} =>
        \A e \in G_edges : e[1] \in subgraph => EdgeCost(e) >= 0

\* C9: every edge has its travel time before the first interval starts, and
\* from then on no step changes the travel times or the graph.
C9_SingleWriter ==
    /\ [](pc # "annotate" => DOMAIN travel_time_sec = G_edges)
    /\ [][pc # "annotate" =>
            UNCHANGED <<G_nodes, G_edges, length, has_xy, travel_time_sec>>]_vars

C9_Witness ==
    /\ pc = "ego"
    /\ idx = 2
    /\ Cardinality(G_edges) = MaxEdges
    /\ Cardinality(DOMAIN dist) > 1

\* C10: on non-negative costs a started search empties its frontier and
\* returns; a finalized node keeps its distance, and the pop of a stale entry
\* changes nothing but the frontier.
C10_Terminates ==
    /\ (pc = "ego" /\ NonNegative) ~> (pc = "coords" /\ fringe = {})
    /\ [][pc = "ego" /\ pc' = "ego" =>
            \A v \in DOMAIN dist : v \in DOMAIN dist' /\ dist'[v] = dist[v]]_vars

\* the search returned after popping a stale entry: more pushes than
\* finalized nodes, on a graph with a zero-cost edge
C10_Witness ==
    /\ pc = "coords"
    /\ NonNegative
    /\ fringe = {}
    /\ count > Cardinality(DOMAIN dist)
    /\ \E e \in G_edges : EdgeCost(e) = 0

\* the search returned on a graph with a zero-cost cycle
C10_WitnessCycle ==
    /\ pc = "coords"
    /\ \E e \in G_edges :
        /\ <<e[2], e[1], 0>> \in G_edges
        /\ e \notin DOMAIN length
        /\ <<e[2], e[1], 0>> \notin DOMAIN length
        /\ {e[1], e[2]} \subseteq subgraph

====
